---------------------------- MODULE Spec2Model ----------------------------
(***************************************************************************)
(* A model of the segregated-free-list allocator of mm.c.                  *)
(*                                                                         *)
(* The heap is modelled word by word: mem maps the byte address of every   *)
(* 8-byte word that has been written to the value stored there; a word     *)
(* that was never written reads as uninit.  Every C function of mm.c is an *)
(* operator from an allocator state (a record of the globals and of the    *)
(* memory) to the state it leaves, so that an API call is one action that  *)
(* performs every write of the call.  Machine words are WordBits wide.     *)
(***************************************************************************)
EXTENDS Integers, Sequences, FiniteSets, TLC

VARIABLES
    mem,         \* heap memory: byte address of a written word -> its value
    uninit,      \* what a never-written heap word reads as
    mem_brk,     \* memlib: first byte after the committed heap
    heap_start,  \* mm.c global: first block header (NULL before mm_init)
    seg_list,    \* mm.c global: heads of the LENGTH bucket lists
    mini_list,   \* mm.c global: head of the mini-block list
    live,        \* the client's live allocations: slot -> [p, n] (p = NULL: free slot)
    op,          \* the last API call: [name, ptr, size]
    ret,         \* what the last API call returned (NULL for void calls)
    ncalls       \* how many calls the client has made

vars ==
    <<mem, uninit, mem_brk, heap_start, seg_list, mini_list, live, op, ret,
      ncalls>>

---------------------------------------------------------------------------
(* Bounds of the model *)

\* width of size_t / word_t / pointers in bits (64 in the build; the model
\* keeps all the arithmetic modulo 2^WordBits)
WordBits == 16

\* memlib's maximum heap size in bytes: mem_sbrk fails beyond it
MaxHeap == 8300

\* the client holds at most this many allocations at once
MaxLive == 4

\* the length of a trace: the client makes at most this many calls, a call
\* that is a compound of others (realloc, calloc) or that leaves the
\* allocator alone (free(NULL), a client write) counting for two
MaxCalls == 6

---------------------------------------------------------------------------
(* Machine arithmetic *)

TwoW == 2^WordBits

SIZE_MAX == TwoW - 1

\* unsigned wrap-around of size_t arithmetic
Wrap(x) == x % TwoW

\* one statement, then the rest of the function with its result v
Then(v, k(_)) == k(v)

NULL == 0

\* little-endian copy of the low k bytes of word src over word dst (k in 1..8)
LowBytes(src, dst, k) ==
    IF 8 * k >= WordBits THEN src
    ELSE (src % (2^(8 * k))) + (dst - (dst % (2^(8 * k))))

---------------------------------------------------------------------------
(* Basic constants of mm.c *)

LENGTH == 14

wsize == 8

dsize == 2 * wsize

min_block_size == dsize

chunksize == 2^12

alloc_mask == 1

prev_alloc_mask == 2

prev_mini_mask == 4

\* word & mask # 0, for a one-bit mask
HasBit(word, mask) == (word \div mask) % 2 = 1

\* word | mask, for a one-bit mask
OrMask(word, mask) == IF HasBit(word, mask) THEN word ELSE word + mask

\* word & size_mask, size_mask = ~0xF
AndSizeMask(word) == word - (word % 16)

---------------------------------------------------------------------------
(* memlib: the contiguous-memory provider *)

\* the heap's first byte; 16-aligned, and not NULL
HeapLo == 4 * dsize

mem_heap_lo == HeapLo

mem_heap_hi(s) == s.mem_brk - 1

\* (void *)-1
SbrkFail == SIZE_MAX

\* mem_sbrk(incr): the old break, or (void *)-1 when incr is negative as an
\* intptr_t or the heap would exceed its maximum
mem_sbrk(s, incr) ==
    IF incr >= TwoW \div 2 \/ s.mem_brk + incr > HeapLo + MaxHeap
    THEN [st |-> s, bp |-> SbrkFail]
    ELSE [st |-> [s EXCEPT !.mem_brk = @ + incr], bp |-> s.mem_brk]

\* *addr
Load(s, addr) == IF addr \in DOMAIN s.mem THEN s.mem[addr] ELSE s.uninit

\* *addr = val
Store(s, addr, val) ==
    IF addr \in DOMAIN s.mem
    THEN [s EXCEPT !.mem[addr] = val]
    ELSE [s EXCEPT !.mem = (addr :> val) @@ @]

---------------------------------------------------------------------------
(* Short helper functions *)

\* max that returns its second argument
max_takes_second(x, y) == y

max(x, y) == IF x > y THEN x ELSE y

round_up(size, n) == Wrap(n * (Wrap(size + (n - 1)) \div n))

\* pack_all that leaves the prev_mini bit out of the word
pack_all_no_prev_mini(size, alloc, prev_alloc, prev_mini) ==
    LET w0 == size
        w1 == IF alloc THEN OrMask(w0, alloc_mask) ELSE w0
    IN  IF prev_alloc THEN OrMask(w1, prev_alloc_mask) ELSE w1

pack_all(size, alloc, prev_alloc, prev_mini) ==
    LET w0 == size
        w1 == IF alloc THEN OrMask(w0, alloc_mask) ELSE w0
        w2 == IF prev_alloc THEN OrMask(w1, prev_alloc_mask) ELSE w1
    IN  IF prev_mini THEN OrMask(w2, prev_mini_mask) ELSE w2

extract_size(word) == AndSizeMask(word)

get_size(s, block) == extract_size(Load(s, block))

\* offsetof(block_t, payload) == wsize
payload_to_header(bp) == Wrap(bp - wsize)

header_to_payload(block) == Wrap(block + wsize)

header_to_footer(s, block) ==
    Wrap(header_to_payload(block) + get_size(s, block) - dsize)

footer_to_header(s, footer) ==
    Wrap(footer + wsize - extract_size(Load(s, footer)))

extract_alloc(word) == HasBit(word, alloc_mask)

get_alloc(s, block) == extract_alloc(Load(s, block))

get_prev_alloc(s, block) == HasBit(Load(s, block), prev_alloc_mask)

get_prev_mini(s, block) == HasBit(Load(s, block), prev_mini_mask)

write_epilogue(s, block, prev_alloc, prev_mini) ==
    Store(s, block, pack_all(0, TRUE, prev_alloc, prev_mini))

find_next(s, block) == Wrap(block + get_size(s, block))

\* write_pack that leaves the footer of a free block unwritten
write_pack_header_only(s, block, size, alloc, prev_alloc, prev_mini) ==
    Store(s, block, pack_all(size, alloc, prev_alloc, prev_mini))

write_pack(s, block, size, alloc, prev_alloc, prev_mini) ==
    LET s1 == Store(s, block, pack_all(size, alloc, prev_alloc, prev_mini))
    IN  IF ~alloc /\ ~(size = min_block_size)
        THEN Store(s1, header_to_footer(s1, block),
                   pack_all(size, alloc, prev_alloc, prev_mini))
        ELSE s1

is_mini_block(s, block) == get_size(s, block) = min_block_size

\* write_prev_alloc that sets the bit in the first word of the payload
write_prev_alloc_in_payload(s, block, prev_alloc) ==
    IF prev_alloc
    THEN Store(s, header_to_payload(block),
               OrMask(Load(s, header_to_payload(block)), prev_alloc_mask))
    ELSE s

\* write_prev_alloc that writes nothing
write_prev_alloc_skipped(s, block, prev_alloc) == s

write_prev_alloc(s, block, prev_alloc) ==
    LET s1 == IF prev_alloc
              THEN Store(s, block, OrMask(Load(s, block), prev_alloc_mask))
              ELSE s
        footer == header_to_footer(s1, block)
    IN  IF ~get_alloc(s1, block) /\ ~is_mini_block(s1, block) /\ prev_alloc
        THEN Store(s1, footer, OrMask(Load(s1, footer), prev_alloc_mask))
        ELSE s1

find_prev_footer(block) == Wrap(block - wsize)

find_prev(s, block) ==
    IF ~get_prev_mini(s, block)
    THEN LET footerp == find_prev_footer(block)
         IN  IF extract_size(Load(s, footerp)) = 0
             THEN NULL
             ELSE footer_to_header(s, footerp)
    ELSE Wrap(block - min_block_size)

\* the link fields of a free block: &block->payload.prev, &block->payload.next
PrevField(block) == Wrap(block + wsize)

NextField(block) == Wrap(block + 2 * wsize)

\* &mini_block->next
MiniNextField(block) == Wrap(block + wsize)

---------------------------------------------------------------------------
(* Free lists *)

find_class(asize) ==
    IF asize < 32 THEN 0
    ELSE IF asize < 64 THEN 1
    ELSE IF asize < 128 THEN 2
    ELSE IF asize < 256 THEN 3
    ELSE IF asize < 512 THEN 4
    ELSE IF asize < 1024 THEN 5
    ELSE IF asize < 2048 THEN 6
    ELSE IF asize < 3072 THEN 7
    ELSE IF asize < 4096 THEN 8
    ELSE IF asize < 6656 THEN 9
    ELSE IF asize < 8192 THEN 10
    ELSE IF asize < 16384 THEN 11
    ELSE IF asize < 32768 THEN 12
    ELSE 13

is_head(s, block) ==
    LET class == find_class(get_size(s, block))
    IN  IF block = s.seg_list[class] THEN class ELSE -1

\* insert_free that loses a block of 16 bytes instead of listing it
insert_free_mini_lost(s, block) ==
    IF is_mini_block(s, block)
    THEN s
    ELSE LET class == find_class(get_size(s, block))
             curr == s.seg_list[class]
             s1 == [s EXCEPT !.seg_list[class] = block]
         IN  IF curr # NULL
             THEN Store(Store(s1, PrevField(curr), block),
                        NextField(block), curr)
             ELSE Store(Store(s1, NextField(block), NULL),
                        PrevField(block), NULL)

\* insert_free that puts a mini block behind the head of the mini list
insert_free_mini_behind_head(s, block) ==
    IF is_mini_block(s, block)
    THEN IF s.mini_list # NULL
         THEN Store(Store(s, MiniNextField(block),
                          Load(s, MiniNextField(s.mini_list))),
                    MiniNextField(s.mini_list), block)
         ELSE [Store(s, MiniNextField(block), NULL)
                  EXCEPT !.mini_list = block]
    ELSE LET class == find_class(get_size(s, block))
             curr == s.seg_list[class]
             s1 == [s EXCEPT !.seg_list[class] = block]
         IN  IF curr # NULL
             THEN Store(Store(s1, PrevField(curr), block),
                        NextField(block), curr)
             ELSE Store(Store(s1, NextField(block), NULL),
                        PrevField(block), NULL)

\* insert_free that does not point the old head back at the new one
insert_free_no_back_link(s, block) ==
    IF is_mini_block(s, block)
    THEN IF s.mini_list # NULL
         THEN [Store(s, MiniNextField(block), s.mini_list)
                  EXCEPT !.mini_list = block]
         ELSE [Store(s, MiniNextField(block), NULL)
                  EXCEPT !.mini_list = block]
    ELSE LET class == find_class(get_size(s, block))
             curr == s.seg_list[class]
             s1 == [s EXCEPT !.seg_list[class] = block]
         IN  IF curr # NULL
             THEN Store(s1, NextField(block), curr)
             ELSE Store(Store(s1, NextField(block), NULL),
                        PrevField(block), NULL)

insert_free(s, block) ==
    IF is_mini_block(s, block)
    THEN IF s.mini_list # NULL
         THEN [Store(s, MiniNextField(block), s.mini_list)
                  EXCEPT !.mini_list = block]
         ELSE [Store(s, MiniNextField(block), NULL)
                  EXCEPT !.mini_list = block]
    ELSE LET class == find_class(get_size(s, block))
             curr == s.seg_list[class]
             s1 == [s EXCEPT !.seg_list[class] = block]
         IN  IF curr # NULL
             THEN Store(Store(s1, PrevField(curr), block),
                        NextField(block), curr)
             ELSE Store(Store(s1, NextField(block), NULL),
                        PrevField(block), NULL)

\* the loop of remove_free: the mini block whose next link is mini_block
RECURSIVE MiniPredecessor(_, _, _)
MiniPredecessor(s, curr, mini_block) ==
    IF Load(s, MiniNextField(curr)) = mini_block
    THEN curr
    ELSE MiniPredecessor(s, Load(s, MiniNextField(curr)), mini_block)

remove_free(s, block) ==
    IF is_mini_block(s, block)
    THEN IF Load(s, MiniNextField(s.mini_list)) = NULL
         THEN [s EXCEPT !.mini_list = NULL]
         ELSE IF block = s.mini_list
         THEN [s EXCEPT !.mini_list = Load(s, MiniNextField(s.mini_list))]
         ELSE LET curr == MiniPredecessor(s, s.mini_list, block)
              IN  Store(s, MiniNextField(curr), Load(s, MiniNextField(block)))
    ELSE LET prev == Load(s, PrevField(block))
             next == Load(s, NextField(block))
             head_ind == is_head(s, block)
             head == head_ind # -1
             tail == next = NULL
         IN  IF head
             THEN [s EXCEPT !.seg_list[head_ind] = next]
             ELSE IF tail
             THEN Store(s, NextField(prev), NULL)
             ELSE Store(Store(s, NextField(prev), next), PrevField(next), prev)

---------------------------------------------------------------------------
(* Coalescing, heap extension, splitting, placement *)

\* coalesce_block that never merges: it lists the block as it is
coalesce_block_never(s, block) ==
    LET next == find_next(s, block)
        next_size == get_size(s, next)
        next_alloc == get_alloc(s, next)
        s1 == write_pack(s, next, next_size, next_alloc, FALSE,
                         is_mini_block(s, block))
    IN  [st |-> insert_free(s1, block), block |-> block]

coalesce_block(s, block) ==
    LET current_size == get_size(s, block)
        prev_alloc == get_prev_alloc(s, block)
        prev == find_prev(s, block)
        next == find_next(s, block)
        next_alloc == get_alloc(s, next)
        next_size == get_size(s, next)
    IN  IF prev_alloc /\ next_alloc
        THEN
        Then(write_pack(s, next, next_size, TRUE, FALSE,
                        is_mini_block(s, block)), LAMBDA s1 :
            [st |-> insert_free(s1, block), block |-> block])
        ELSE IF ~prev_alloc /\ next_alloc
        THEN
        Then(remove_free(s, prev), LAMBDA s1 :
            LET total_size == Wrap(current_size + get_size(s1, prev))
                prev_prev_alloc == get_prev_alloc(s1, prev)
                prev_prev_mini == get_prev_mini(s1, prev)
            IN
        Then(write_pack(s1, prev, total_size, FALSE, prev_prev_alloc,
                        prev_prev_mini), LAMBDA s2 :
        Then(write_pack(s2, next, next_size, TRUE, FALSE, FALSE), LAMBDA s3 :
            [st |-> insert_free(s3, prev), block |-> prev])))
        ELSE IF prev_alloc /\ ~next_alloc
        THEN
        Then(remove_free(s, next), LAMBDA s1 :
            LET total_size == Wrap(current_size + next_size)
                prev_mini == get_prev_mini(s1, block)
            IN
        Then(write_pack(s1, block, total_size, FALSE, TRUE,
                        prev_mini), LAMBDA s2 :
            LET next_next == find_next(s2, next)
                next_next_size == get_size(s2, next_next)
                next_next_alloc == get_alloc(s2, next_next)
            IN
        Then(write_pack(s2, next_next, next_next_size, next_next_alloc,
                        FALSE, FALSE), LAMBDA s3 :
            [st |-> insert_free(s3, block), block |-> block])))
        ELSE
        Then(remove_free(remove_free(s, prev), next), LAMBDA s1 :
            LET total_size == Wrap(current_size + get_size(s1, prev)
                                   + get_size(s1, next))
                prev_prev_alloc == get_prev_alloc(s1, prev)
                prev_prev_mini == get_prev_mini(s1, prev)
            IN
        Then(write_pack(s1, prev, total_size, FALSE, prev_prev_alloc,
                        prev_prev_mini), LAMBDA s2 :
            LET next_next == find_next(s2, next)
                next_next_size == get_size(s2, next_next)
                next_next_alloc == get_alloc(s2, next_next)
            IN
        Then(write_pack(s2, next_next, next_next_size, next_next_alloc,
                        FALSE, FALSE), LAMBDA s3 :
            [st |-> insert_free(s3, prev), block |-> prev])))

\* extend_heap putting the header of the new block at the old break, behind
\* the old epilogue
extend_heap_keeps_old_epilogue(s, size0) ==
    LET size == round_up(size0, dsize)
    IN
    Then(mem_sbrk(s, size), LAMBDA r :
        LET block == r.bp
            prev_alloc == get_prev_alloc(r.st, block)
            prev_mini == get_prev_mini(r.st, block)
        IN  IF r.bp = SbrkFail
            THEN [st |-> s, block |-> NULL]
            ELSE
            Then(write_pack(r.st, block, size, FALSE, prev_alloc,
                            prev_mini), LAMBDA s1 :
                LET block_next == find_next(s1, block)
                IN
            Then(write_epilogue(s1, block_next, get_alloc(s1, block),
                                is_mini_block(s1, block)), LAMBDA s2 :
                coalesce_block(s2, block))))

\* extend_heap writing a plain epilogue at the end of the heap when mem_sbrk
\* refuses
extend_heap_rewrites_epilogue(s, size0) ==
    LET size == round_up(size0, dsize)
    IN
    Then(mem_sbrk(s, size), LAMBDA r :
        LET block == payload_to_header(r.bp)
            prev_alloc == get_prev_alloc(r.st, block)
            prev_mini == get_prev_mini(r.st, block)
        IN  IF r.bp = SbrkFail
            THEN [st |-> write_epilogue(s, s.mem_brk - wsize, FALSE, FALSE),
                  block |-> NULL]
            ELSE
            Then(write_pack(r.st, block, size, FALSE, prev_alloc,
                            prev_mini), LAMBDA s1 :
                LET block_next == find_next(s1, block)
                IN
            Then(write_epilogue(s1, block_next, get_alloc(s1, block),
                                is_mini_block(s1, block)), LAMBDA s2 :
                coalesce_block(s2, block))))

extend_heap(s, size0) ==
    LET size == round_up(size0, dsize)
    IN
    Then(mem_sbrk(s, size), LAMBDA r :
        LET block == payload_to_header(r.bp)
            prev_alloc == get_prev_alloc(r.st, block)
            prev_mini == get_prev_mini(r.st, block)
        IN  IF r.bp = SbrkFail
            THEN [st |-> s, block |-> NULL]
            ELSE
            Then(write_pack(r.st, block, size, FALSE, prev_alloc,
                            prev_mini), LAMBDA s1 :
                LET block_next == find_next(s1, block)
                IN
            Then(write_epilogue(s1, block_next, get_alloc(s1, block),
                                is_mini_block(s1, block)), LAMBDA s2 :
                coalesce_block(s2, block))))

\* split_block that gives the remainder 16 bytes more than are left over
split_block_long_remainder(s, block, asize) ==
    LET block_size == get_size(s, block)
        prev_alloc == get_prev_alloc(s, block)
        prev_mini == get_prev_mini(s, block)
    IN  IF Wrap(block_size - asize) >= min_block_size
        THEN
        Then(write_pack(s, block, asize, TRUE, prev_alloc,
                        prev_mini), LAMBDA s1 :
            LET block_next == find_next(s1, block)
            IN
        Then(write_pack(s1, block_next, Wrap(block_size - asize + dsize),
                        FALSE, TRUE, asize = min_block_size), LAMBDA s2 :
            LET next_next == find_next(s2, block_next)
            IN  [st |-> write_prev_alloc(s2, next_next, FALSE),
                 block |-> block_next]))
        ELSE [st |-> s, block |-> NULL]

\* split_block that never splits
split_block_never(s, block, asize) == [st |-> s, block |-> NULL]

\* split_block that splits whatever is left over, were it nothing
split_block_any_remainder(s, block, asize) ==
    LET block_size == get_size(s, block)
        prev_alloc == get_prev_alloc(s, block)
        prev_mini == get_prev_mini(s, block)
    IN
    Then(write_pack(s, block, asize, TRUE, prev_alloc, prev_mini), LAMBDA s1 :
        LET block_next == find_next(s1, block)
        IN
    Then(write_pack(s1, block_next, Wrap(block_size - asize), FALSE, TRUE,
                    asize = min_block_size), LAMBDA s2 :
        LET next_next == find_next(s2, block_next)
        IN  [st |-> write_prev_alloc(s2, next_next, FALSE),
             block |-> block_next]))

split_block(s, block, asize) ==
    LET block_size == get_size(s, block)
        prev_alloc == get_prev_alloc(s, block)
        prev_mini == get_prev_mini(s, block)
    IN  IF Wrap(block_size - asize) >= min_block_size
        THEN
        Then(write_pack(s, block, asize, TRUE, prev_alloc,
                        prev_mini), LAMBDA s1 :
            LET block_next == find_next(s1, block)
            IN
        Then(write_pack(s1, block_next, Wrap(block_size - asize), FALSE,
                        TRUE, asize = min_block_size), LAMBDA s2 :
            LET next_next == find_next(s2, block_next)
            IN  [st |-> write_prev_alloc(s2, next_next, FALSE),
                 block |-> block_next]))
        ELSE [st |-> s, block |-> NULL]


\* the loop over one bucket letting a later block of the same size replace
\* the best one
RECURSIVE ScanBucket_takes_equal(_, _, _, _)
ScanBucket_takes_equal(s, asize, block, best) ==
    IF block = NULL
    THEN best
    ELSE IF ~get_alloc(s, block) /\ asize <= get_size(s, block)
         THEN IF best = NULL
              THEN ScanBucket_takes_equal(s, asize,
                                          Load(s, NextField(block)), block)
              ELSE IF get_size(s, block) <= get_size(s, best)
              THEN ScanBucket_takes_equal(s, asize,
                                          Load(s, NextField(block)), block)
              ELSE best
         ELSE ScanBucket_takes_equal(s, asize,
                                     Load(s, NextField(block)), best)

\* the while loop of find_fit over one bucket: the block it leaves in best
RECURSIVE ScanBucket(_, _, _, _)
ScanBucket(s, asize, block, best) ==
    IF block = NULL
    THEN best
    ELSE IF ~get_alloc(s, block) /\ asize <= get_size(s, block)
         THEN IF best = NULL
              THEN ScanBucket(s, asize, Load(s, NextField(block)), block)
              ELSE IF get_size(s, block) < get_size(s, best)
              THEN ScanBucket(s, asize, Load(s, NextField(block)), block)
              ELSE best
         ELSE ScanBucket(s, asize, Load(s, NextField(block)), best)

\* the for loop of find_fit, from bucket i upwards
RECURSIVE ScanClasses(_, _, _)
ScanClasses(s, asize, i) ==
    IF i >= LENGTH
    THEN NULL
    ELSE LET best == ScanBucket(s, asize, s.seg_list[i], NULL)
         IN  IF best # NULL THEN best ELSE ScanClasses(s, asize, i + 1)

\* find_fit that leaves out the bucket of the class of asize
find_fit_skips_class(s, asize) ==
    IF asize = min_block_size /\ s.mini_list # NULL
    THEN s.mini_list
    ELSE ScanClasses(s, asize, find_class(asize) + 1)

\* find_fit that answers any request from the mini list when it can
find_fit_any_mini(s, asize) ==
    IF s.mini_list # NULL
    THEN s.mini_list
    ELSE ScanClasses(s, asize, find_class(asize))

find_fit(s, asize) ==
    IF asize = min_block_size /\ s.mini_list # NULL
    THEN s.mini_list
    ELSE ScanClasses(s, asize, find_class(asize))

---------------------------------------------------------------------------
(* The public API *)

\* mm_init that asks for the epilogue word alone and writes no prologue
mm_init_no_prologue(s) ==
    Then(mem_sbrk(s, wsize), LAMBDA r :
        LET start == r.bp
            s1 == [r.st EXCEPT !.seg_list = [i \in 0..(LENGTH - 1) |-> NULL],
                               !.mini_list = NULL]
            s3 == Store(s1, start, pack_all(0, TRUE, TRUE, FALSE))
            s4 == [s3 EXCEPT !.heap_start = start]
        IN  IF r.bp = SbrkFail
            THEN [st |-> s, ok |-> FALSE]
            ELSE Then(extend_heap(s4, chunksize), LAMBDA e :
                    [st |-> e.st, ok |-> e.block # NULL]))

mm_init(s) ==
    Then(mem_sbrk(s, 2 * wsize), LAMBDA r :
        LET start == r.bp
            s1 == [r.st EXCEPT !.seg_list = [i \in 0..(LENGTH - 1) |-> NULL],
                               !.mini_list = NULL]
            s2 == Store(s1, start, pack_all(0, TRUE, FALSE, FALSE))
            s3 == Store(s2, start + wsize, pack_all(0, TRUE, TRUE, FALSE))
            s4 == [s3 EXCEPT !.heap_start = start + wsize]
        IN  IF r.bp = SbrkFail
            THEN [st |-> s, ok |-> FALSE]
            ELSE Then(extend_heap(s4, chunksize), LAMBDA e :
                    [st |-> e.st, ok |-> e.block # NULL]))

\* the adjusted size without room for the header
adjusted_size_no_header(size) == round_up(size, dsize)

\* malloc's adjusted block size: the request plus the header, rounded up
adjusted_size(size) == round_up(Wrap(size + wsize), dsize)

\* malloc without the test for a request of no bytes
malloc_body_no_zero_test(s, size) ==
    LET asize == adjusted_size(size)
        extendsize == max(asize, chunksize)
    IN
        Then(find_fit(s, asize), LAMBDA fit :
        Then(IF fit = NULL
             THEN extend_heap(s, extendsize)
             ELSE [st |-> s, block |-> fit], LAMBDA e :
            LET block == e.block
            IN  IF block = NULL
                THEN [st |-> e.st, bp |-> NULL]
                ELSE
                Then(remove_free(e.st, block), LAMBDA s1 :
                    LET block_size == get_size(s1, block)
                        prev_alloc == get_prev_alloc(s1, block)
                        prev_mini == get_prev_mini(s1, block)
                    IN
                Then(write_pack(s1, block, block_size, TRUE, prev_alloc,
                                prev_mini), LAMBDA s2 :
                    LET next == find_next(s2, block)
                    IN
                Then(write_prev_alloc(s2, next, TRUE), LAMBDA s3 :
                Then(split_block(s3, block, asize), LAMBDA temp :
                    [st |-> IF temp.block # NULL
                            THEN coalesce_block(temp.st, temp.block).st
                            ELSE temp.st,
                     bp |-> header_to_payload(block)]))))))

\* malloc from the point where the heap is initialized
malloc_body(s, size) ==
    LET asize == adjusted_size(size)
        extendsize == max(asize, chunksize)
    IN  IF size = 0
        THEN [st |-> s, bp |-> NULL]
        ELSE
        Then(find_fit(s, asize), LAMBDA fit :
        Then(IF fit = NULL
             THEN extend_heap(s, extendsize)
             ELSE [st |-> s, block |-> fit], LAMBDA e :
            LET block == e.block
            IN  IF block = NULL
                THEN [st |-> e.st, bp |-> NULL]
                ELSE
                Then(remove_free(e.st, block), LAMBDA s1 :
                    LET block_size == get_size(s1, block)
                        prev_alloc == get_prev_alloc(s1, block)
                        prev_mini == get_prev_mini(s1, block)
                    IN
                Then(write_pack(s1, block, block_size, TRUE, prev_alloc,
                                prev_mini), LAMBDA s2 :
                    LET next == find_next(s2, block)
                    IN
                Then(write_prev_alloc(s2, next, TRUE), LAMBDA s3 :
                Then(split_block(s3, block, asize), LAMBDA temp :
                    [st |-> IF temp.block # NULL
                            THEN coalesce_block(temp.st, temp.block).st
                            ELSE temp.st,
                     bp |-> header_to_payload(block)]))))))

malloc(s, size) ==
    IF s.heap_start = NULL
    THEN Then(mm_init(s), LAMBDA i :
            IF ~i.ok
            THEN [st |-> i.st, bp |-> NULL]
            ELSE malloc_body(i.st, size))
    ELSE malloc_body(s, size)

free(s, bp) ==
    IF bp = NULL
    THEN s
    ELSE LET block == payload_to_header(bp)
             block_size == get_size(s, block)
             prev_alloc == get_prev_alloc(s, block)
             prev_mini == get_prev_mini(s, block)
         IN
         Then(write_pack(s, block, block_size, FALSE, prev_alloc,
                         prev_mini), LAMBDA s1 :
             LET next == find_next(s1, block)
             IN
         Then(write_prev_alloc(s1, next, FALSE), LAMBDA s2 :
             coalesce_block(s2, block).st))

\* the heap words that hold bytes [ptr, ptr + n) (ptr is word-aligned)
WordsOf(ptr, n) == {ptr + wsize * k : k \in 0..(((n + wsize - 1) \div wsize) - 1)}

\* how many bytes of the word at address a lie in [ptr, ptr + n)
BytesIn(ptr, n, a) == IF ptr + n - a >= wsize THEN wsize ELSE ptr + n - a

\* the memory after writing word[a] over the bytes [ptr, ptr + n)
Blit(s, ptr, n, word) ==
    [s EXCEPT !.mem =
        [a \in WordsOf(ptr, n) |->
            LowBytes(word[a], Load(s, a), BytesIn(ptr, n, a))] @@ @]

memcpy(s, dst, src, n) ==
    Blit(s, dst, n, [a \in WordsOf(dst, n) |-> Load(s, a - dst + src)])

memset(s, dst, c, n) ==
    Blit(s, dst, n, [a \in WordsOf(dst, n) |-> c])

\* realloc taking the old payload for the block less header and footer
realloc_copies_less_footer(s, ptr, size) ==
    IF size = 0
    THEN [st |-> free(s, ptr), bp |-> NULL]
    ELSE IF ptr = NULL
    THEN malloc(s, size)
    ELSE Then(malloc(s, size), LAMBDA m :
            LET block == payload_to_header(ptr)
                newptr == m.bp
                old == Wrap(get_size(m.st, block) - dsize)
                copysize == IF size < old THEN size ELSE old
            IN  IF newptr = NULL
                THEN [st |-> m.st, bp |-> NULL]
                ELSE [st |-> free(memcpy(m.st, newptr, ptr, copysize), ptr),
                      bp |-> newptr])

\* realloc without the case of a NULL pointer
realloc_no_null_case(s, ptr, size) ==
    IF size = 0
    THEN [st |-> free(s, ptr), bp |-> NULL]
    ELSE Then(malloc(s, size), LAMBDA m :
            LET block == payload_to_header(ptr)
                newptr == m.bp
                old == Wrap(get_size(m.st, block) - wsize)
                copysize == IF size < old THEN size ELSE old
            IN  IF newptr = NULL
                THEN [st |-> m.st, bp |-> NULL]
                ELSE [st |-> free(memcpy(m.st, newptr, ptr, copysize), ptr),
                      bp |-> newptr])

\* realloc giving the old block up when malloc fails
realloc_frees_on_failure(s, ptr, size) ==
    IF size = 0
    THEN [st |-> free(s, ptr), bp |-> NULL]
    ELSE IF ptr = NULL
    THEN malloc(s, size)
    ELSE Then(malloc(s, size), LAMBDA m :
            LET block == payload_to_header(ptr)
                newptr == m.bp
                old == Wrap(get_size(m.st, block) - wsize)
                copysize == IF size < old THEN size ELSE old
            IN  IF newptr = NULL
                THEN [st |-> free(m.st, ptr), bp |-> NULL]
                ELSE [st |-> free(memcpy(m.st, newptr, ptr, copysize), ptr),
                      bp |-> newptr])

realloc(s, ptr, size) ==
    IF size = 0
    THEN [st |-> free(s, ptr), bp |-> NULL]
    ELSE IF ptr = NULL
    THEN malloc(s, size)
    ELSE Then(malloc(s, size), LAMBDA m :
            LET block == payload_to_header(ptr)
                newptr == m.bp
                old == Wrap(get_size(m.st, block) - wsize)
                copysize == IF size < old THEN size ELSE old
            IN  IF newptr = NULL
                THEN [st |-> m.st, bp |-> NULL]
                ELSE [st |-> free(memcpy(m.st, newptr, ptr, copysize), ptr),
                      bp |-> newptr])

\* calloc returning the block as malloc left it
calloc_no_memset(s, elements, size) ==
    LET asize == Wrap(elements * size)
    IN  IF elements = 0
        THEN [st |-> s, bp |-> NULL]
        ELSE IF asize \div elements # size
        THEN [st |-> s, bp |-> NULL]
        ELSE malloc(s, asize)

\* calloc without the test of the product
calloc_unchecked_product(s, elements, size) ==
    LET asize == Wrap(elements * size)
    IN  IF elements = 0
        THEN [st |-> s, bp |-> NULL]
        ELSE Then(malloc(s, asize), LAMBDA m :
                IF m.bp = NULL
                THEN [st |-> m.st, bp |-> NULL]
                ELSE [st |-> memset(m.st, m.bp, 0, asize), bp |-> m.bp])

calloc(s, elements, size) ==
    LET asize == Wrap(elements * size)
    IN  IF elements = 0
        THEN [st |-> s, bp |-> NULL]
        ELSE IF asize \div elements # size
        THEN [st |-> s, bp |-> NULL]
        ELSE Then(malloc(s, asize), LAMBDA m :
                IF m.bp = NULL
                THEN [st |-> m.st, bp |-> NULL]
                ELSE [st |-> memset(m.st, m.bp, 0, asize), bp |-> m.bp])

---------------------------------------------------------------------------
(* The client: the trace of API calls *)

\* the sizes the client passes to malloc: 0, and sizes whose blocks are 16,
\* 32 and 4096 bytes
ReqSizes == {0, 8, 16, chunksize - wsize}

\* the sizes the client passes to realloc
ReallocSizes == {0, 40}

\* the (elements, size) pairs the client passes to calloc
CallocArgs == {<<0, 8>>, <<3, 8>>}

\* the bytes the client writes into its allocations, as a word
Pattern == TwoW - 6

NoAlloc == [p |-> NULL, n |-> 0]

Slots == 1..MaxLive

FreeSlots == {i \in Slots : live[i].p = NULL}

\* the slot a new allocation is recorded in
NewSlot == CHOOSE i \in FreeSlots : \A j \in FreeSlots : i <= j

\* the allocator state held in the variables
Cur ==
    [mem |-> mem, uninit |-> uninit, mem_brk |-> mem_brk,
     heap_start |-> heap_start, seg_list |-> seg_list, mini_list |-> mini_list]

Commit(s) ==
    /\ mem' = s.mem
    /\ uninit' = s.uninit
    /\ mem_brk' = s.mem_brk
    /\ heap_start' = s.heap_start
    /\ seg_list' = s.seg_list
    /\ mini_list' = s.mini_list

Call(name, ptr, size) == [name |-> name, ptr |-> ptr, size |-> size]

\* one more call of the trace, counting for k
Step(k) == ncalls + k <= MaxCalls /\ ncalls' = ncalls + k

Init ==
    /\ mem = << >>
    /\ uninit \in {0, SIZE_MAX}
    /\ mem_brk = HeapLo
    /\ heap_start = NULL
    /\ seg_list = [i \in 0..(LENGTH - 1) |-> NULL]
    /\ mini_list = NULL
    /\ live = [i \in Slots |-> NoAlloc]
    /\ op = Call("none", NULL, 0)
    /\ ret = NULL
    /\ ncalls = 0

\* mm_init has returned r
Initializes(r) ==
    /\ Commit(r.st)
    /\ ret' = IF r.ok THEN 1 ELSE 0

\* a call has returned the pointer r.bp, leaving the allocator in r.st
Returns(r) ==
    /\ Commit(r.st)
    /\ ret' = r.bp

\* the client holds the n bytes at r.bp in slot i, unless r.bp is NULL
Keeps(r, i, n) ==
    live' = IF r.bp = NULL THEN live
            ELSE [live EXCEPT ![i] = [p |-> r.bp, n |-> n]]

\* the driver initializes the heap once, before the first request
MmInit ==
    /\ Step(1)
    /\ heap_start = NULL
    /\ Initializes(mm_init(Cur))
    /\ op' = Call("mm_init", NULL, 0)
    /\ UNCHANGED live

Malloc(req) ==
    /\ Step(1)
    /\ FreeSlots # {}
    /\ Then(malloc(Cur, req), LAMBDA r : Returns(r) /\ Keeps(r, NewSlot, req))
    /\ op' = Call("malloc", NULL, req)

Free(i) ==
    /\ Step(1)
    /\ live[i].p # NULL
    /\ Commit(free(Cur, live[i].p))
    /\ live' = [live EXCEPT ![i] = NoAlloc]
    /\ op' = Call("free", live[i].p, 0)
    /\ ret' = NULL

FreeNull ==
    /\ Step(2)
    /\ heap_start # NULL
    /\ Commit(free(Cur, NULL))
    /\ op' = Call("free", NULL, 0)
    /\ ret' = NULL
    /\ UNCHANGED live

Realloc(i, req) ==
    /\ Step(2)
    /\ live[i].p # NULL
    /\ Then(realloc(Cur, live[i].p, req), LAMBDA r :
            /\ Returns(r)
            /\ IF req = 0
               THEN live' = [live EXCEPT ![i] = NoAlloc]
               ELSE Keeps(r, i, req))
    /\ op' = Call("realloc", live[i].p, req)

ReallocNull(req) ==
    /\ Step(2)
    /\ FreeSlots # {}
    /\ Then(realloc(Cur, NULL, req), LAMBDA r :
            Returns(r) /\ Keeps(r, NewSlot, req))
    /\ op' = Call("realloc", NULL, req)

Calloc(elements, size) ==
    /\ Step(2)
    /\ FreeSlots # {}
    /\ heap_start # NULL
    /\ Then(calloc(Cur, elements, size), LAMBDA r :
            Returns(r) /\ Keeps(r, NewSlot, Wrap(elements * size)))
    /\ op' = Call("calloc", elements, size)

\* the client fills the bytes it asked for with its pattern
Write(i) ==
    /\ Step(2)
    /\ live[i].p # NULL
    /\ Commit(Blit(Cur, live[i].p, live[i].n,
                   [a \in WordsOf(live[i].p, live[i].n) |-> Pattern]))
    /\ op' = Call("write", live[i].p, live[i].n)
    /\ ret' = NULL
    /\ UNCHANGED live

Next ==
    \/ MmInit
    \/ \E req \in ReqSizes : Malloc(req)
    \/ \E i \in Slots : Free(i)
    \/ FreeNull
    \/ \E i \in Slots : \E req \in ReallocSizes : Realloc(i, req)
    \/ \E req \in ReallocSizes : ReallocNull(req)
    \/ \E a \in CallocArgs : Calloc(a[1], a[2])
    \/ \E i \in Slots : Write(i)

Spec == Init /\ [][Next]_vars

\* Requests at the top of the word: three whose adjusted size wraps around
\* (to 16, to 0 and to 0), and the largest one whose adjusted size does not
WideSizes == {SIZE_MAX, TwoW - wsize, TwoW - (dsize + wsize) + 1,
              TwoW - (dsize + wsize)}

\* malloc of such a request; the model follows the allocator up to the
\* return of this call and no further
MallocWide(req) ==
    /\ ncalls < MaxCalls
    /\ ncalls' = MaxCalls
    /\ FreeSlots # {}
    /\ Then(malloc(Cur, req), LAMBDA r : Returns(r) /\ Keeps(r, NewSlot, req))
    /\ op' = Call("malloc", NULL, req)

\* calloc arguments at the top of the word: two pairs whose product is
\* SIZE_MAX and fits the word, and pairs whose product does not fit it and
\* wraps to a large value, to 0, to half the word, to 24 and to 16
WideCallocArgs ==
    {<<1, SIZE_MAX>>, <<SIZE_MAX, 1>>, <<2, SIZE_MAX>>, <<SIZE_MAX, 2>>,
     <<2, TwoW \div 2>>, <<TwoW \div 2, 2>>, <<3, TwoW \div 2>>,
     <<(TwoW \div 8) + 3, 8>>, <<(TwoW \div 16) + 1, 16>>}

\* what the client sees of a call that does not return
Fault == TwoW

\* calloc(elements, size) reaches its memset with a pointer bp for which
\* bp + asize lies past the last byte of the heap: the memset leaves the
\* memory of memlib and the call ends in a fault
CallocOverruns(s, elements, size) ==
    /\ elements # 0
    /\ Wrap(elements * size) \div elements = size
    /\ Then(malloc(s, Wrap(elements * size)), LAMBDA m :
            /\ m.bp # NULL
            /\ m.bp + Wrap(elements * size) - 1 > mem_heap_hi(m.st))

\* calloc of such arguments; the model follows the allocator up to the
\* return of this call, or up to its fault, and no further
CallocWide(elements, size) ==
    /\ ncalls < MaxCalls
    /\ ncalls' = MaxCalls
    /\ FreeSlots # {}
    /\ heap_start # NULL
    /\ IF CallocOverruns(Cur, elements, size)
       THEN /\ Commit(malloc(Cur, Wrap(elements * size)).st)
            /\ ret' = Fault
            /\ UNCHANGED live
       ELSE Then(calloc(Cur, elements, size), LAMBDA r :
                Returns(r) /\ Keeps(r, NewSlot, Wrap(elements * size)))
    /\ op' = Call("calloc", elements, size)

NextWide ==
    \/ Next
    \/ \E req \in WideSizes : MallocWide(req)
    \/ \E a \in WideCallocArgs : CallocWide(a[1], a[2])

SpecWide == Init /\ [][NextWide]_vars

\* The client of the spec's end-to-end scenarios: blocks of 16 and of 24
\* bytes taken and given back in any order
ScenarioSizes == {dsize, 3 * wsize}

\* mm_init called on a heap that is already initialized, the memory of
\* memlib not being reset; the model follows the allocator up to the return
\* of this call and no further
MmInitAgain ==
    /\ ncalls < MaxCalls
    /\ ncalls' = MaxCalls
    /\ heap_start # NULL
    /\ Initializes(mm_init(Cur))
    /\ op' = Call("mm_init", NULL, 0)
    /\ UNCHANGED live

NextScenario ==
    \/ MmInit
    \/ \E req \in ScenarioSizes : Malloc(req)
    \/ \E i \in Slots : Free(i)
    \/ MmInitAgain

SpecScenario == Init /\ [][NextScenario]_vars

\* The client that fills the lists before it goes on: three blocks a, b, c,
\* each followed by a block of 16 bytes that stays allocated, are taken from
\* a heap not yet initialized, and b, c, a are freed in that order

\* the payload sizes of a, b and c
FitSizes == {wsize, 3 * wsize, 5 * wsize}

\* the allocator before the first call
Fresh(u) ==
    [mem |-> << >>, uninit |-> u, mem_brk |-> HeapLo, heap_start |-> NULL,
     seg_list |-> [i \in 0..(LENGTH - 1) |-> NULL], mini_list |-> NULL]

\* the state after the calls that fill the lists: the client holds the three
\* blocks of 16 bytes, and half of the calls of a trace are left to it
InitFit ==
    \E u \in {0, SIZE_MAX} : \E x \in FitSizes, y \in FitSizes, z \in FitSizes :
    \E a \in {malloc(Fresh(u), x)} : \E g1 \in {malloc(a.st, wsize)} :
    \E b \in {malloc(g1.st, y)} : \E g2 \in {malloc(b.st, wsize)} :
    \E c \in {malloc(g2.st, z)} : \E g3 \in {malloc(c.st, wsize)} :
    \E f \in {free(free(free(g3.st, b.bp), c.bp), a.bp)} :
        /\ mem = f.mem
        /\ uninit = f.uninit
        /\ mem_brk = f.mem_brk
        /\ heap_start = f.heap_start
        /\ seg_list = f.seg_list
        /\ mini_list = f.mini_list
        /\ live = [i \in Slots |->
                      IF i <= 3 THEN [p |-> <<g1.bp, g2.bp, g3.bp>>[i], n |-> wsize]
                      ELSE NoAlloc]
        /\ op = Call("free", a.bp, 0)
        /\ ret = NULL
        /\ ncalls = MaxCalls \div 2

\* the requests that follow: those sizes again, the request that takes the
\* whole rest of the first chunk when a, b and c are mini blocks, and one for
\* more than a chunk
FitRequests == FitSizes \cup {chunksize - 6 * dsize - wsize, chunksize + wsize}

NextFit ==
    \/ \E req \in FitRequests : Malloc(req)
    \/ \E i \in Slots : Free(i)

SpecFit == InitFit /\ [][NextFit]_vars

---------------------------------------------------------------------------
(* The heap checker *)

check_prologue_epilogue(s) ==
    LET prologue == Load(s, mem_heap_lo)
        epilogue == mem_heap_hi(s) - 7
    IN  /\ extract_alloc(prologue)
        /\ get_alloc(s, epilogue)
        /\ extract_size(prologue) = 0
        /\ get_size(s, epilogue) = 0

check_alignment(block) == header_to_payload(block) % 16 = 0

check_boundary(s, block) ==
    ~(block > mem_heap_hi(s)) /\ ~(block < mem_heap_lo)

check_non_consecutive_free(s, block) ==
    ~(~get_alloc(s, block) /\ ~get_alloc(s, find_next(s, block)))

check_header_footer_match(s, block) ==
    LET header == Load(s, block)
        footer == Load(s, header_to_footer(s, block))
        is_mini == get_prev_mini(s, find_next(s, block))
    IN  ~(~get_alloc(s, block) /\ ~is_mini /\ header # footer)

check_block_size(s, block) ==
    ~(get_size(s, block) < min_block_size \/ get_size(s, block) % 16 # 0)

\* more steps than a walk over the heap or over a list can take
WalkFuel == (MaxHeap \div min_block_size) + 2

\* the while loop of general_heap_checker from block curr; a loop that does
\* not end returns nothing, which is not true
RECURSIVE CheckBlocksFrom(_, _, _)
CheckBlocksFrom(s, curr, fuel) ==
    IF curr = mem_heap_hi(s) - 7
    THEN TRUE
    ELSE /\ fuel > 0
         /\ check_alignment(curr)
         /\ check_boundary(s, curr)
         /\ check_block_size(s, curr)
         /\ check_header_footer_match(s, curr)
         /\ check_non_consecutive_free(s, curr)
         /\ CheckBlocksFrom(s, find_next(s, curr), fuel - 1)

general_heap_checker(s) ==
    /\ check_prologue_epilogue(s)
    /\ CheckBlocksFrom(s, s.heap_start, WalkFuel)

\* the while loop of check_list over bucket i from block curr
RECURSIVE CheckListFrom(_, _, _, _)
CheckListFrom(s, i, curr, fuel) ==
    IF curr = NULL
    THEN TRUE
    ELSE /\ fuel > 0
         /\ ~(curr > mem_heap_hi(s))
         /\ ~(curr < mem_heap_lo)
         /\ LET next == Load(s, NextField(curr))
            IN  next # NULL => Load(s, PrevField(next)) = curr
         /\ find_class(get_size(s, curr)) = i
         /\ CheckListFrom(s, i, Load(s, NextField(curr)), fuel - 1)

check_list(s) ==
    \A i \in 0..(LENGTH - 1) : CheckListFrom(s, i, s.seg_list[i], WalkFuel)

mm_checkheap(s) == general_heap_checker(s) /\ check_list(s)

---------------------------------------------------------------------------
(* What the claims speak of: the blocks of the heap and the free lists *)

Initialized == heap_start # NULL

Epilogue(s) == mem_heap_hi(s) - 7

\* the block headers met from block b on by adding sizes, up to the epilogue
RECURSIVE WalkFrom(_, _, _)
WalkFrom(s, b, fuel) ==
    IF b = Epilogue(s) \/ fuel = 0 \/ b < mem_heap_lo \/ b > mem_heap_hi(s)
    THEN << >>
    ELSE IF get_size(s, b) = 0
    THEN <<b>>
    ELSE <<b>> \o WalkFrom(s, find_next(s, b), fuel - 1)

HeapWalk == WalkFrom(Cur, heap_start, WalkFuel)

Blocks == LET walk == HeapWalk IN {walk[k] : k \in DOMAIN walk}

\* the walk ends on the epilogue header
WalkReachesEpilogue ==
    IF HeapWalk = << >>
    THEN heap_start = Epilogue(Cur)
    ELSE LET last == HeapWalk[Len(HeapWalk)]
         IN  get_size(Cur, last) # 0 /\ find_next(Cur, last) = Epilogue(Cur)

IsFree(b) == ~get_alloc(Cur, b)

SizeOf(b) == get_size(Cur, b)

\* the nodes of a list from node on, following the next links of mini blocks
\* (mini) or of bucket blocks
RECURSIVE ListFrom(_, _, _)
ListFrom(node, mini, fuel) ==
    IF node = NULL \/ fuel = 0
    THEN << >>
    ELSE LET link == IF mini THEN MiniNextField(node) ELSE NextField(node)
         IN  <<node>> \o ListFrom(Load(Cur, link), mini, fuel - 1)

Bucket(i) == ListFrom(seg_list[i], FALSE, WalkFuel)

MiniList == ListFrom(mini_list, TRUE, WalkFuel)

Occurrences(seq, x) == Cardinality({k \in DOMAIN seq : seq[k] = x})

Classes == 0..(LENGTH - 1)

LiveSlots == {i \in Slots : live[i].p # NULL}

---------------------------------------------------------------------------
(* The claims *)

Returned == op.name \in {"malloc", "realloc", "calloc"} /\ ret # NULL

\* the allocator state a step leads to
CurNext ==
    [mem |-> mem', uninit |-> uninit', mem_brk |-> mem_brk',
     heap_start |-> heap_start', seg_list |-> seg_list',
     mini_list |-> mini_list']

\* words x and y agree in their low k bytes
SameLowBytes(x, y, k) == LowBytes(x, 0, k) = LowBytes(y, 0, k)

\* the step is a call realloc(p, n) with p # NULL and n > 0
ReallocStep == op'.name = "realloc" /\ op'.ptr # NULL /\ op'.size > 0

\* the payload bytes of the block at p before the step: its size less wsize
OldPayload(p) == get_size(Cur, payload_to_header(p)) - wsize

\* C1: any two allocations that are live at the same time occupy disjoint
\* byte ranges [p, p + n).
C1_LiveAllocationsDisjoint ==
    \A i \in LiveSlots : \A j \in LiveSlots :
        live[i].p # live[j].p => \/ live[i].p + live[i].n <= live[j].p
                                 \/ live[j].p + live[j].n <= live[i].p

\* three allocations live at once, the last one placed by realloc
C1_Witness ==
    /\ Cardinality(LiveSlots) >= 3
    /\ op.name = "realloc"
    /\ ret # NULL
    /\ ret # op.ptr

\* C2 as stated: for every request size req > 0 over the whole range of the
\* word, a non-nil pointer returned by malloc(req) lies in a block whose size
\* less the header is at least req.
C2_PayloadAtLeastRequest ==
    (op.name = "malloc" /\ ret # NULL)
        => get_size(Cur, payload_to_header(ret)) - wsize >= op.size

\* The part of C2 that holds: the same for every request size req > 0 for
\* which req + wsize + (dsize - 1) stays within the word.
C2_PayloadAtLeastRequestInRange ==
    (op.name = "malloc" /\ ret # NULL /\ op.size + wsize + (dsize - 1) < TwoW)
        => get_size(Cur, payload_to_header(ret)) - wsize >= op.size

\* malloc(16) answered from a block of 32 bytes cut off a larger one
C2_Witness ==
    /\ op.name = "malloc"
    /\ op.size = dsize
    /\ ret # NULL
    /\ get_size(Cur, payload_to_header(ret)) = 2 * dsize
    /\ Cardinality(LiveSlots) >= 2

\* C3: every non-nil pointer returned by malloc, realloc or calloc is a
\* multiple of 16 and lies between mem_heap_lo and mem_heap_hi when returned.
C3_ReturnedAlignedInHeap ==
    Returned => /\ ret % 16 = 0
                /\ mem_heap_lo <= ret
                /\ ret <= mem_heap_hi(Cur)

\* a pointer returned from a heap that has been extended past its first chunk
C3_Witness ==
    /\ Returned
    /\ mem_brk > HeapLo + dsize + chunksize
    /\ ret > HeapLo + dsize + chunksize

\* C4: after every call no two blocks adjacent in the heap are both free.
C4_NoAdjacentFree ==
    Initialized =>
        \A b \in Blocks : ~(IsFree(b) /\ IsFree(find_next(Cur, b)))

\* a free has merged the freed block into the free block before it, next to
\* live allocations
C4_Witness ==
    /\ op.name = "free"
    /\ op.ptr # NULL
    /\ payload_to_header(op.ptr) \notin Blocks
    /\ LiveSlots # {}

\* C5: after every call, for every block B and its right neighbour N (the
\* epilogue included), N.prev_alloc = B.alloc and N.prev_mini = (B.size = 16).
C5_NeighbourFlags ==
    Initialized =>
        \A b \in Blocks :
            LET n == find_next(Cur, b)
            IN  /\ get_prev_alloc(Cur, n) = get_alloc(Cur, b)
                /\ get_prev_mini(Cur, n) = (SizeOf(b) = min_block_size)

\* a free block of 16 bytes and an allocated block of 16 bytes, each followed
\* by an allocated block
C5_Witness ==
    /\ \E b \in Blocks : /\ IsFree(b)
                         /\ SizeOf(b) = min_block_size
                         /\ find_next(Cur, b) # Epilogue(Cur)
    /\ \E b \in Blocks : /\ ~IsFree(b)
                         /\ SizeOf(b) = min_block_size
                         /\ find_next(Cur, b) # Epilogue(Cur)

C7_FooterEqualsHeader ==
    Initialized =>
        \A b \in Blocks :
            (IsFree(b) /\ SizeOf(b) >= 2 * dsize)
                => Load(Cur, b + SizeOf(b) - wsize) = Load(Cur, b)

\* a free block of 32 bytes or more that follows a block of 16 bytes, so that
\* header and footer carry the prev_mini bit
C7_Witness ==
    \E b \in Blocks : /\ IsFree(b)
                      /\ SizeOf(b) >= 2 * dsize
                      /\ get_prev_mini(Cur, b)
                      /\ get_prev_alloc(Cur, b)

\* C8: after every call, for every node X of any of the 14 buckets with
\* X.next # NULL, X.next.prev = X.
C8_NextPrevLinks ==
    Initialized =>
        \A i \in Classes : \A k \in DOMAIN Bucket(i) :
            LET X == Bucket(i)[k]
                next == Load(Cur, NextField(X))
            IN  next # NULL => Load(Cur, PrevField(next)) = X

\* a bucket that holds two blocks
C8_Witness == \E i \in Classes : Len(Bucket(i)) >= 2

\* C9: after every call every block between prologue and epilogue has a
\* stored size that is at least 16 and a multiple of 16, and the prologue and
\* the epilogue each have size 0 and the alloc bit set.
C9_BlockSizes ==
    Initialized =>
        /\ WalkReachesEpilogue
        /\ \A b \in Blocks : SizeOf(b) >= 16 /\ SizeOf(b) % 16 = 0
        /\ extract_size(Load(Cur, mem_heap_lo)) = 0
        /\ extract_alloc(Load(Cur, mem_heap_lo))
        /\ get_size(Cur, Epilogue(Cur)) = 0
        /\ get_alloc(Cur, Epilogue(Cur))

\* a heap of four blocks or more, the smallest and a whole chunk among them
C9_Witness ==
    /\ Len(HeapWalk) >= 4
    /\ \E b \in Blocks : SizeOf(b) = min_block_size
    /\ \E b \in Blocks : SizeOf(b) >= chunksize

\* C10: from mm_init on, after any sequence of malloc, free of a live
\* pointer, realloc and calloc, mm_checkheap returns true; so it does after
\* freeing a pointer that malloc returned.
C10_CheckHeapTrue == Initialized => mm_checkheap(Cur)

\* a pointer that malloc returned has just been freed, leaving free blocks
\* on the mini list and on a bucket
C10_Witness ==
    /\ op.name = "free"
    /\ op.ptr # NULL
    /\ mini_list # NULL
    /\ \E i \in Classes : seg_list[i] # NULL
    /\ mm_checkheap(Cur)

\* C11: calloc(1, SIZE_MAX) returns NULL.
C11_CallocOneSizeMaxNil ==
    op = Call("calloc", 1, SIZE_MAX) => ret = NULL

\* C12: a call calloc(n, s) with n > 0 whose product n * s does not fit the
\* word returns NULL and leaves the heap, the lists and the client's
\* allocations as they were: the test Wrap(n * s) \div n # s catches it.
C12_OverflowReturnsNil ==
    [][(op'.name = "calloc" /\ op'.ptr > 0 /\ op'.ptr * op'.size >= TwoW)
        => /\ ret' = NULL
           /\ UNCHANGED <<mem, mem_brk, heap_start, seg_list, mini_list, live>>]_vars

\* calloc has refused a product that wraps to 24, a size malloc would serve
C12_Witness ==
    /\ op.name = "calloc"
    /\ op.ptr > 0
    /\ op.ptr * op.size >= TwoW
    /\ Wrap(op.ptr * op.size) = 3 * wsize
    /\ ret = NULL
    /\ \E i \in Classes : seg_list[i] # NULL

\* C13: when realloc(p, n) with p # NULL and n > 0 returns q # NULL, the
\* first min(n, old payload size) bytes at q after the call are the bytes
\* that were at p before it, the old payload size being the size of p's
\* block less 8.
C13_ReallocCopiesPrefix ==
    [][(ReallocStep /\ ret' # NULL)
        => LET k == IF op'.size < OldPayload(op'.ptr)
                    THEN op'.size ELSE OldPayload(op'.ptr)
           IN  \A a \in WordsOf(0, k) :
                   SameLowBytes(Load(CurNext, ret' + a),
                                Load(Cur, op'.ptr + a),
                                BytesIn(0, k, a))]_vars

\* realloc has moved the client's pattern to a new block, and the old
\* block, now free, holds a link word where the pattern was
C13_Witness ==
    /\ op.name = "realloc"
    /\ op.ptr # NULL
    /\ op.size > 0
    /\ ret # NULL
    /\ ret # op.ptr
    /\ Load(Cur, ret) = Pattern
    /\ Load(Cur, op.ptr) # Pattern

\* C14: when realloc(p, n) with p # NULL and n > 0 gets no new block, it
\* returns NULL and the block at p is as before the call: allocated, at the
\* same address, with the same header word and so the same size, and with
\* every payload word unchanged.
C14_FailedReallocKeepsBlock ==
    [][(ReallocStep /\ ret' = NULL)
        => /\ Load(CurNext, payload_to_header(op'.ptr))
                  = Load(Cur, payload_to_header(op'.ptr))
           /\ get_alloc(CurNext, payload_to_header(op'.ptr))
           /\ get_size(CurNext, payload_to_header(op'.ptr))
                  = get_size(Cur, payload_to_header(op'.ptr))
           /\ \A a \in WordsOf(op'.ptr, OldPayload(op'.ptr)) :
                  Load(CurNext, a) = Load(Cur, a)
           /\ \E i \in Slots : live'[i].p = op'.ptr /\ live'[i] = live[i]]_vars

\* realloc has failed on a heap that mem_sbrk no longer extends, for a block
\* that holds the client's pattern
C14_Witness ==
    /\ op.name = "realloc"
    /\ op.ptr # NULL
    /\ op.size > 0
    /\ ret = NULL
    /\ mem_brk + chunksize > HeapLo + MaxHeap
    /\ get_alloc(Cur, payload_to_header(op.ptr))
    /\ Load(Cur, op.ptr) = Pattern

\* C15: on an initialized heap, a malloc(n) with n > 0 that finds no fitting
\* free block and whose extension mem_sbrk refuses returns NULL and leaves
\* the heap bounds, every word of the heap (so every header and footer), the
\* 14 bucket heads and the mini-list head unchanged.
C15_FailedMallocChangesNothing ==
    [][(heap_start # NULL /\ op'.name = "malloc" /\ op'.size > 0
            /\ ret' = NULL)
        => UNCHANGED <<mem, mem_brk, heap_start, seg_list, mini_list>>]_vars

\* malloc has returned NULL for a request of a whole chunk on a heap that
\* mem_sbrk no longer extends and that still has free blocks on its lists
C15_Witness ==
    /\ op.name = "malloc"
    /\ op.size = chunksize - wsize
    /\ ret = NULL
    /\ mem_brk + chunksize > HeapLo + MaxHeap
    /\ mini_list # NULL
    /\ \E i \in Classes : seg_list[i] # NULL

\* the step is a call realloc(NULL, n) that returns what malloc(n) returns
\* from the same state
ReallocNullReturnsAsMalloc ==
    (op'.name = "realloc" /\ op'.ptr = NULL)
        => ret' = malloc(Cur, op'.size).bp

\* the step is a call realloc(p, 0) that leaves the state free(p) leaves
\* from the same state, and returns NULL
ReallocZeroIsFree ==
    (op'.name = "realloc" /\ op'.size = 0)
        => (ret' = NULL /\ CurNext = free(Cur, op'.ptr))

\* C16 as stated: every call realloc(NULL, n) returns what malloc(n) returns
\* and leaves the state malloc(n) leaves; every call realloc(p, 0) leaves
\* the state free(p) leaves and returns NULL.
C16_ReallocEquivalences ==
    [][/\ ReallocNullReturnsAsMalloc
       /\ (op'.name = "realloc" /\ op'.ptr = NULL)
              => CurNext = malloc(Cur, op'.size).st
       /\ ReallocZeroIsFree]_vars

\* The part of C16 that holds: every call realloc(NULL, n) returns what
\* malloc(n) returns,
\* and leaves the state malloc(n) leaves when n > 0 or the heap is
\* initialized; every call realloc(p, 0) leaves the state free(p) leaves and
\* returns NULL.
C16_ReallocEquivalencesInitialized ==
    [][/\ ReallocNullReturnsAsMalloc
       /\ (op'.name = "realloc" /\ op'.ptr = NULL
                /\ (op'.size > 0 \/ heap_start # NULL))
              => CurNext = malloc(Cur, op'.size).st
       /\ ReallocZeroIsFree]_vars

\* realloc(NULL, n) has just returned a new block while the client holds
\* another one that realloc(p, 0) would free
C16_Witness ==
    /\ op.name = "realloc"
    /\ op.ptr = NULL
    /\ op.size > 0
    /\ ret # NULL
    /\ Cardinality(LiveSlots) >= 2
    /\ \E i \in Classes : seg_list[i] # NULL

\* C17: in every state malloc(0) returns NULL, and free(NULL) returns with
\* every word of the heap (so every header and footer), the bucket heads, the
\* mini-list head and the heap bounds as they were.
C17_ZeroAndNullAreNoOps ==
    /\ malloc(Cur, 0).bp = NULL
    /\ free(Cur, NULL) = Cur

\* free(NULL) has just returned on a heap with allocated and free blocks
C17_Witness ==
    /\ op = Call("free", NULL, 0)
    /\ LiveSlots # {}
    /\ mini_list # NULL
    /\ \E i \in Classes : seg_list[i] # NULL

\* C18: when calloc(n, s) returns a pointer p # NULL, the n * s bytes from p
\* on are all zero, whatever the block held before: fresh memory, the
\* client's data, link words of a free list or a footer.
C18_CallocZeroes ==
    (op.name = "calloc" /\ ret # NULL /\ ret # Fault)
        => \A a \in WordsOf(ret, op.ptr * op.size) :
               SameLowBytes(Load(Cur, a), 0,
                            BytesIn(ret, op.ptr * op.size, a))

\* calloc has returned a block of 32 bytes cut off a free block that the
\* client had filled with its pattern before freeing it: the pattern is
\* still there further on, in the remainder
C18_Witness ==
    /\ op.name = "calloc"
    /\ ret # NULL
    /\ uninit # 0
    /\ get_size(Cur, payload_to_header(ret)) = 2 * dsize
    /\ Load(Cur, ret + 6 * wsize) = Pattern
    /\ ~get_alloc(Cur, find_next(Cur, payload_to_header(ret)))

\* the request sizes malloc, free, malloc is tried with
ReuseSizes == {wsize, dsize, chunksize}

\* C19: from any reachable state and for any n > 0, if malloc(n) returns
\* p # NULL and free(p) is the next call, the malloc(n) after it returns the
\* same p.
C19_FreedBlockReused ==
    \A n \in ReuseSizes :
        Then(malloc(Cur, n), LAMBDA m :
            m.bp # NULL => malloc(free(m.st, m.bp), n).bp = m.bp)

\* the spec's case: on a heap just initialized, malloc(4096) extends the
\* heap for its block, and after free malloc(4096) returns that block again
C19_Witness ==
    /\ op.name = "mm_init"
    /\ ret = 1
    /\ Then(malloc(Cur, chunksize), LAMBDA m :
            /\ m.bp # NULL
            /\ m.st.mem_brk = mem_brk + chunksize + dsize
            /\ malloc(free(m.st, m.bp), chunksize).bp = m.bp)

\* the payload of the first block of the heap
FirstPayload == HeapLo + dsize

\* the heap was initialized, a, b and c were returned by three calls
\* malloc(24) in that order, and free(a) and then free(c) have been called:
\* a, b and c are the first three payloads, 32 bytes apart, and b alone is
\* still held (a request of 16 bytes for a or c takes the same block and
\* leaves the same heap)
AfterFreeAThenC ==
    /\ heap_start # NULL
    /\ mem_brk = HeapLo + dsize + chunksize
    /\ op = Call("free", FirstPayload + 4 * dsize, 0)
    /\ LiveSlots = {2}
    /\ live[2] = [p |-> FirstPayload + 2 * dsize, n |-> 3 * wsize]

\* block b is on bucket i
OnBucket(b, i) == Occurrences(Bucket(i), b) = 1

\* C20 as stated: after a = malloc(24), b = malloc(24), c = malloc(24),
\* free(a), free(c) on a freshly initialized heap, mm_checkheap holds and
\* the blocks of a and of c are both on bucket 1.
C20_BothOnBucketOne ==
    AfterFreeAThenC
        => /\ mm_checkheap(Cur)
           /\ OnBucket(payload_to_header(FirstPayload), 1)
           /\ OnBucket(payload_to_header(FirstPayload + 4 * dsize), 1)

\* C20 amended: after the same calls mm_checkheap holds, the 32-byte block
\* of a is on bucket 1, and the block of c has been merged with the free
\* block behind it: the free block that starts at c's header has
\* chunksize - 64 bytes and is on bucket 8, not on bucket 1.
C20_AOnBucketOneCMerged ==
    AfterFreeAThenC
        => /\ mm_checkheap(Cur)
           /\ OnBucket(payload_to_header(FirstPayload), 1)
           /\ SizeOf(payload_to_header(FirstPayload)) = 2 * dsize
           /\ IsFree(payload_to_header(FirstPayload + 4 * dsize))
           /\ SizeOf(payload_to_header(FirstPayload + 4 * dsize))
                  = chunksize - 4 * dsize
           /\ OnBucket(payload_to_header(FirstPayload + 4 * dsize), 8)
           /\ ~OnBucket(payload_to_header(FirstPayload + 4 * dsize), 1)

\* the scenario has run, after an explicit mm_init
C20_Witness ==
    /\ AfterFreeAThenC
    /\ ncalls = 6
    /\ get_alloc(Cur, payload_to_header(FirstPayload + 2 * dsize))

\* the heap was initialized, three calls malloc returned the blocks the
\* client holds in slots 1, 2 and 3, the first and the third for 16 bytes,
\* and the fourth call was free of the second, which lies between them
AfterFreeMiddle ==
    /\ heap_start # NULL
    /\ mem_brk = HeapLo + dsize + chunksize
    /\ ncalls <= 5
    /\ op.name = "free"
    /\ LiveSlots = {1, 3}
    /\ live[1].n = dsize
    /\ live[3].n = dsize
    /\ live[1].p < op.ptr
    /\ op.ptr < live[3].p

\* C21 as stated: after three calls malloc(16) on a freshly initialized heap
\* and free of the second pointer, the head of the mini list is the freed
\* block, and the next malloc(16) returns that pointer.
C21_FreedMiddleHeadsMiniList ==
    AfterFreeMiddle
        => /\ mini_list = payload_to_header(op.ptr)
           /\ malloc(Cur, dsize).bp = op.ptr

\* C21 amended: after the same calls the freed block has 32 bytes and is the
\* head of bucket 1, the mini list is empty, and the next malloc(16) returns
\* that pointer.
C21_FreedMiddleHeadsBucketOne ==
    AfterFreeMiddle
        => /\ SizeOf(payload_to_header(op.ptr)) = 2 * dsize
           /\ seg_list[1] = payload_to_header(op.ptr)
           /\ mini_list = NULL
           /\ malloc(Cur, dsize).bp = op.ptr

\* the scenario has run, after an explicit mm_init, and the freed block lies
\* between two allocated ones
C21_Witness ==
    /\ AfterFreeMiddle
    /\ ncalls = 5
    /\ IsFree(payload_to_header(op.ptr))
    /\ get_alloc(Cur, find_next(Cur, payload_to_header(op.ptr)))
    /\ get_prev_alloc(Cur, payload_to_header(op.ptr))

\* the size malloc is called with in the step
Asked == IF op'.name = "calloc" THEN Wrap(op'.ptr * op'.size) ELSE op'.size

\* what extend_heap returns when the malloc of the step calls it
Extension == extend_heap(Cur, max(adjusted_size(Asked), chunksize))

\* the blocks after the extension of the step are the blocks before it, at
\* their addresses and with their sizes, followed by one new block that
\* starts at the old epilogue; or, when the last block was free, that block
\* has grown by the new space
ExtensionKeepsBlocks ==
    Then(Extension, LAMBDA e :
        LET after == WalkFrom(e.st, heap_start, WalkFuel)
            n == Len(HeapWalk)
            kept == IF n > 0 /\ IsFree(HeapWalk[n]) THEN n - 1 ELSE n
        IN  /\ e.st.mem_brk = mem_brk'
            /\ Len(after) = kept + 1
            /\ \A k \in 1..kept :
                   /\ after[k] = HeapWalk[k]
                   /\ get_size(e.st, after[k]) = SizeOf(HeapWalk[k])
            /\ after[kept + 1] = IF kept < n THEN HeapWalk[n]
                                  ELSE Epilogue(Cur)
            /\ find_next(e.st, after[kept + 1]) = Epilogue(e.st)
            /\ e.block = after[kept + 1])

C23_InitIdempotent ==
    [][(op'.name = "mm_init" /\ heap_start # NULL)
        => /\ UNCHANGED <<mem_brk, heap_start, seg_list, mini_list>>
           /\ WalkFrom(CurNext, heap_start', WalkFuel) = HeapWalk]_vars

\* C24: the classes include their upper bounds, as in the table of the
\* README and the header comment of mm.c: a free block of exactly 32 bytes is
\* on bucket 0, one of 64 bytes on bucket 1, one of 4096 bytes on bucket 8
\* and one of 32768 bytes on bucket 12.
C24_UpperBoundsInclusive ==
    \A b \in Blocks :
        IsFree(b)
            => /\ SizeOf(b) = 32 => OnBucket(b, 0)
               /\ SizeOf(b) = 64 => OnBucket(b, 1)
               /\ SizeOf(b) = 4096 => OnBucket(b, 8)
               /\ SizeOf(b) = 32768 => OnBucket(b, 12)

\* C25: after every call, in each non-empty bucket the prev link of the head
\* block is NULL and the next link of the tail block is NULL, and removing
\* the head of a bucket leaves the new head with a NULL prev link.
C25_HeadPrevTailNextNil ==
    \A i \in Classes :
        Bucket(i) # << >>
            => /\ Load(Cur, PrevField(Bucket(i)[1])) = NULL
               /\ Load(Cur, NextField(Bucket(i)[Len(Bucket(i))])) = NULL
               /\ Len(Bucket(i)) >= 2
                      => Load(remove_free(Cur, Bucket(i)[1]),
                              PrevField(Bucket(i)[2])) = NULL

\* the block the scan of C26 leaves: the smallest fitting block met before
\* the scan stops, the scan stopping only at a fitting block strictly larger
\* than the best one so far
RECURSIVE StrictBestFit(_, _, _, _)
StrictBestFit(blocks, asize, k, best) ==
    IF k > Len(blocks)
    THEN best
    ELSE IF asize <= SizeOf(blocks[k])
         THEN IF best = NULL
              THEN StrictBestFit(blocks, asize, k + 1, blocks[k])
              ELSE IF SizeOf(blocks[k]) < SizeOf(best)
              THEN StrictBestFit(blocks, asize, k + 1, blocks[k])
              ELSE IF SizeOf(blocks[k]) = SizeOf(best)
              THEN StrictBestFit(blocks, asize, k + 1, best)
              ELSE best
         ELSE StrictBestFit(blocks, asize, k + 1, best)

\* C26: within the bucket of asize, find_fit stops only at a fitting block
\* strictly larger than the best fit so far; a fitting block of the size of
\* the best one does not stop the scan, and a smaller fitting block after it
\* is chosen (sizes [48, 48, 32] and asize 32 give the block of 32 bytes);
\* blocks smaller than asize are skipped.
C26_EqualSizeDoesNotStopScan ==
    \A asize \in {2 * dsize, 3 * dsize} :
        LET chosen == StrictBestFit(Bucket(find_class(asize)), asize, 1, NULL)
        IN  chosen # NULL => find_fit(Cur, asize) = chosen

\* no free block of asize bytes or more is on the mini list, on a bucket or
\* in the heap
NoFit(asize) ==
    /\ MiniList # << >> => asize > min_block_size
    /\ \A i \in Classes : \A k \in DOMAIN Bucket(i) :
           SizeOf(Bucket(i)[k]) < asize
    /\ \A b \in Blocks : IsFree(b) => SizeOf(b) < asize

\* C27: a call extends an initialized heap only if no free block of asize
\* bytes or more is on the mini list or on a bucket, and find_fit(asize) is
\* NULL in malloc only when there is no such block.
C27_ExtendsOnlyWithoutFit ==
    [][/\ (heap_start # NULL /\ mem_brk' > mem_brk)
              => NoFit(adjusted_size(Asked))
       /\ (heap_start # NULL /\ op'.name = "malloc" /\ op'.size > 0)
              => (find_fit(Cur, adjusted_size(Asked)) = NULL
                      <=> NoFit(adjusted_size(Asked)))]_vars

\* malloc has extended the heap although a block was free: after a block of
\* 32 bytes was taken, the rest of the first chunk was too small for the
\* 4096 bytes asked for
C27_Witness ==
    /\ op.name = "malloc"
    /\ op.size = chunksize - wsize
    /\ ret = FirstPayload + 2 * dsize
    /\ mem_brk = HeapLo + dsize + 2 * chunksize

\* C28: when a call extends an initialized heap, mem_brk moves up by
\* asize = round_up(req + 8, 16) bytes or by 4096 bytes, whichever is more,
\* whatever the size of a free block at the end of the heap.
C28_GrowsByMaxOfAsizeAndChunk ==
    [][(heap_start # NULL /\ mem_brk' > mem_brk)
           => mem_brk' - mem_brk =
                  IF adjusted_size(Asked) > chunksize
                  THEN adjusted_size(Asked)
                  ELSE chunksize]_vars

\* malloc(4104) has moved the end of the heap up by 4112 bytes while the last
\* block of the heap was free, and returned the start of that block
C28_Witness ==
    /\ op.name = "malloc"
    /\ op.size = chunksize + wsize
    /\ mem_brk = HeapLo + dsize + 2 * chunksize + dsize
    /\ ret = FirstPayload + 6 * dsize
    /\ IsFree(find_next(Cur, payload_to_header(ret)))

\* C29: every allocated block has exactly round_up(req + 8, 16) bytes for
\* the req it was allocated with: whatever the free block taken had beyond
\* that was split off, and a request of 1..8 bytes has a mini block.
C29_AllocatedSizeExact ==
    \A i \in LiveSlots :
        /\ SizeOf(payload_to_header(live[i].p)) = adjusted_size(live[i].n)
        /\ live[i].n \in 1..wsize
               => SizeOf(payload_to_header(live[i].p)) = min_block_size

\* malloc(8) has taken a free block of 32 bytes: its block has 16 bytes and
\* the 16 bytes left over are a free mini block behind it
C29_Witness ==
    /\ op.name = "malloc"
    /\ op.size = wsize
    /\ ret # NULL
    /\ SizeOf(payload_to_header(ret)) = min_block_size
    /\ mini_list = find_next(Cur, payload_to_header(ret))
    /\ get_alloc(Cur, find_next(Cur, mini_list))

\* the place of mini block b on the mini list before the step
PlaceOf(b) == CHOOSE k \in DOMAIN MiniList : MiniList[k] = b

\* C30: a malloc whose asize is 16 returns the payload of the head of the
\* mini list when that list is not empty and takes the head off; a mini block
\* that a call puts on the list becomes its head (LIFO); and the mini blocks
\* that stay on the list through a call, whether the head, a block in the
\* middle or the tail was removed, keep their order.
C30_MiniListLifo ==
    [][/\ (op'.name = "malloc" /\ adjusted_size(op'.size) = min_block_size
              /\ MiniList # << >>)
           => /\ ret' = header_to_payload(MiniList[1])
              /\ MiniList' = Tail(MiniList)
       /\ \A k \in DOMAIN MiniList' :
              Occurrences(MiniList, MiniList'[k]) = 0 => k = 1
       /\ \A j \in DOMAIN MiniList' : \A k \in DOMAIN MiniList' :
              (/\ j < k
               /\ Occurrences(MiniList, MiniList'[j]) = 1
               /\ Occurrences(MiniList, MiniList'[k]) = 1)
                  => PlaceOf(MiniList'[j]) < PlaceOf(MiniList'[k])]_vars

\* the mini list was [a, c, b] and the block between c and the free end of
\* the heap has been freed: c, in the middle of the list, was merged away and
\* the list is [a, b]
C30_Witness ==
    /\ op.name = "free"
    /\ op.ptr = FirstPayload + 5 * dsize
    /\ ncalls = MaxCalls \div 2 + 1
    /\ MiniList = <<heap_start, heap_start + 2 * dsize>>
    /\ IsFree(heap_start + 4 * dsize)
    /\ SizeOf(heap_start + 4 * dsize) > min_block_size

\* C31: malloc(0) on a heap that is not initialized returns NULL before any
\* initialization: it calls mem_sbrk not at all and leaves heap_start, the
\* bounds of the heap and the free lists as they were.
C31_MallocZeroTouchesNothing ==
    [][(heap_start = NULL /\ op'.name = "malloc" /\ op'.size = 0)
           => /\ ret' = NULL
              /\ UNCHANGED <<mem, mem_brk, heap_start, seg_list, mini_list>>]_vars

\* the sum of the stored sizes of the blocks of a walk
RECURSIVE SumOfSizes(_, _)
SumOfSizes(walk, k) ==
    IF k > Len(walk) THEN 0 ELSE SizeOf(walk[k]) + SumOfSizes(walk, k + 1)

\* C32: between calls the blocks tile the heap: the first block follows the
\* prologue word, adding the stored size of each block leads from heap_start
\* to the epilogue header at mem_heap_hi - 7 and not past it, and the sizes
\* add up to the size of the heap less the 16 bytes of prologue and epilogue
\* (so the sum stays what it is through every call that does not extend the
\* heap).
C32_BlocksTileHeap ==
    Initialized =>
        LET walk == HeapWalk
        IN  /\ heap_start = mem_heap_lo + wsize
            /\ \A k \in DOMAIN walk :
                   LET next == walk[k] + SizeOf(walk[k])
                   IN  /\ SizeOf(walk[k]) > 0
                       /\ next <= Epilogue(Cur)
                       /\ next = IF k < Len(walk) THEN walk[k + 1]
                                 ELSE Epilogue(Cur)
            /\ walk = << >> => heap_start = Epilogue(Cur)
            /\ SumOfSizes(walk, 1) = (mem_brk - mem_heap_lo) - dsize

\* a heap of two chunks where a freed block was merged with its neighbour
\* and a block was split: five blocks or more, one of them free and not at
\* the end of the heap
C32_Witness ==
    /\ mem_brk = HeapLo + dsize + 2 * chunksize
    /\ Len(HeapWalk) >= 5
    /\ \E k \in DOMAIN HeapWalk :
           /\ k < Len(HeapWalk)
           /\ IsFree(HeapWalk[k])
           /\ SizeOf(HeapWalk[k]) > 2 * dsize

\* C33: no call writes into the payload [p, p + size - 8) of a block that is
\* live and is not the argument of the call: through every step each word of
\* the payload of every other block the client holds keeps its value.
C33_OtherPayloadsUntouched ==
    [][\A i \in LiveSlots :
           (live'[i].p = live[i].p /\ op'.ptr # live[i].p)
               => \A a \in WordsOf(live[i].p, OldPayload(live[i].p)) :
                      Load(CurNext, a) = Load(Cur, a)]_vars

\* free has freed the block right before a block that the client holds and
\* has filled with its pattern: the header of that block now says that the
\* block before it is free, and the pattern is in its payload
C33_Witness ==
    /\ op.name = "free"
    /\ op.ptr # NULL
    /\ IsFree(payload_to_header(op.ptr))
    /\ \E i \in LiveSlots :
           /\ payload_to_header(live[i].p) =
                  find_next(Cur, payload_to_header(op.ptr))
           /\ ~get_prev_alloc(Cur, payload_to_header(live[i].p))
           /\ Load(Cur, live[i].p) = Pattern

\* C34: when split_block(B, asize) splits and returns, the block after the
\* remainder has prev_alloc = false; and write_prev_alloc(N, false) leaves
\* the header of N, and its footer if N is free and not a mini block, with
\* the prev_alloc bit cleared.
C34_SplitClearsPrevAlloc ==
    Initialized =>
        /\ \A B \in Blocks :
               (get_alloc(Cur, B) /\ SizeOf(B) >= 2 * min_block_size)
                   => Then(split_block(Cur, B, min_block_size), LAMBDA r :
                          /\ r.block # NULL
                          /\ ~get_prev_alloc(r.st, find_next(r.st, r.block)))
        /\ \A N \in Blocks \cup {Epilogue(Cur)} :
               Then(write_prev_alloc(Cur, N, FALSE), LAMBDA s :
                   /\ ~get_prev_alloc(s, N)
                   /\ (~get_alloc(s, N) /\ get_size(s, N) > min_block_size)
                          => ~HasBit(Load(s, header_to_footer(s, N)),
                                     prev_alloc_mask))

=============================================================================
